---- MODULE Spec2Model ----
(***************************************************************************)
(* ClipboardManager (src/utils/clipboard_manager.py) as a state machine.   *)
(*                                                                         *)
(* One manager object and the OS clipboard it talks to.  Every public      *)
(* method is one action; the method body is an operator that threads a     *)
(* "world" record (clipboard content, clipboard lock, Tk root, the calls   *)
(* made so far) through the backend calls in the order the code makes      *)
(* them.  A backend call fails (raises) when the environment makes it fail *)
(* (its name is in the fault set F of the operation) or when its own       *)
(* precondition does not hold (a Tk call on a destroyed root, a            *)
(* CloseClipboard without the lock).                                       *)
(***************************************************************************)
EXTENDS Integers, Sequences, FiniteSets, TLC

\* Bounds of the model.
MaxClose == 2        \* close() bodies run per manager (close, __exit__, __del__)
MaxDim == 1          \* largest width / height of a PIL image input
MaxConstruct == 2    \* constructor runs made by get_clipboard()

\* Program constant: bmp_data[14:] drops the BMP file header.
BmpFileHeaderLen == 14

\* Program constant: the upper limit of np.clip(image_data, 0, 255).
UInt8Max == 255

\* Inputs of the pure functions.
MaxBmpDim == 5       \* largest width / height of an encoded bitmap
FloatSamples == {-52, 0, 9, 1279, 2550, 2559, 3007}   \* tenths
IntSamples == {-50, 0, 1270, 2550, 3000}              \* tenths
ByteSamples == {0, 127, 255}
NumpyMajors == {1, 2}

Texts == {"", "a", "b"}

VARIABLES
    phase,          \* "uninit" | "ready" | "failed" | "deleted"
    has_win32,      \* self._has_win32
    has_pyperclip,  \* self._has_pyperclip
    has_tkinter,    \* self._has_tkinter
    tk_root,        \* self._tk_root: "unset" | "None" | "live" | "destroyed"
    clip,           \* content of the OS clipboard
    lock,           \* this process holds the OS clipboard lock
    lastOp,         \* the last public call: op, arg, ret, calls, inj
    prevOp,         \* the public call a get_text came after: op, text, ok, inj
    closeCalls,     \* how many times the body of close() has run
    destroyCalls,   \* how many times _tk_root.destroy() was invoked
    destroyOk,      \* how many of these destroyed a window
    windows,        \* how many Tk windows were created
    np_version,     \* major version of the numpy of the runtime
    array,          \* the numpy array _convert_to_pil is applied to
    converted,      \* what _convert_to_pil made of it
    bitmap,         \* the RGB image the bitmap encoding is applied to
    payload,        \* the bytes handed to SetClipboardData for it
    _clipboard_instance,  \* the module-level singleton: "None" | "set"
    constructions,  \* how many times get_clipboard() ran the constructor
    pending         \* the module-level function whose method call is due

\* The state of the inputs and results of the pure functions, and of the
\* module-level API.
pure == <<np_version, array, converted, bitmap, payload>>
module == <<_clipboard_instance, constructions, pending>>

vars == <<phase, has_win32, has_pyperclip, has_tkinter, tk_root, clip, lock,
          lastOp, prevOp, closeCalls, destroyCalls, destroyOk, windows,
          pure, module>>

----------------------------------------------------------------------------
\* Python values that cross the facade.

PyVal(t, v, m, d, wd, ht) ==
    [type |-> t, v |-> v, mode |-> m, decodable |-> d, width |-> wd, height |-> ht]
Str(t) == PyVal("str", t, "", FALSE, 0, 0)
NoArg == PyVal("none", "", "", FALSE, 0, 0)

PyTrue == [kind |-> "bool", b |-> TRUE, s |-> ""]
PyFalse == [kind |-> "bool", b |-> FALSE, s |-> ""]
PyNone == [kind |-> "None", b |-> FALSE, s |-> ""]
PyStr(s) == [kind |-> "str", b |-> FALSE, s |-> s]
PyRaised == [kind |-> "raised", b |-> FALSE, s |-> ""]
PyNoReturn == [kind |-> "noreturn", b |-> FALSE, s |-> ""]

\* Arguments save_text is called with: texts and two non-text values.
TextInputs ==
    {Str(t) : t \in Texts}
      \cup {PyVal("int", "7", "", FALSE, 0, 0), PyVal("bytes", "a", "", FALSE, 0, 0)}

\* Arguments save_image is called with: PIL images (RGB and not), the path
\* of an image file, bytes that are no image, an array, and a value of no
\* supported type.
ImageInputs ==
    {PyVal("Image", "", "RGB", TRUE, wd, ht) : wd \in 1..MaxDim, ht \in 1..MaxDim}
      \cup {PyVal("Image", "", "RGBA", TRUE, 1, 1)}
      \cup {PyVal("str", "", "RGB", TRUE, 1, 1), PyVal("bytes", "", "RGB", FALSE, 1, 1),
            PyVal("ndarray", "", "RGB", TRUE, 1, 1)}
      \cup {PyVal("int", "7", "", FALSE, 0, 0)}

\* Clipboard content: nothing, a text (CF_UNICODETEXT) or a bitmap (CF_DIB).
NoContent == [kind |-> "empty", text |-> "", dib |-> <<>>]
TextContent(t) == [kind |-> "text", text |-> t, dib |-> <<>>]
DibContent(d) == [kind |-> "image", text |-> "", dib |-> d]

----------------------------------------------------------------------------
\* The world a method body runs in, and the results of calls and bodies.

World == [clip |-> clip, lock |-> lock, tk |-> tk_root, calls |-> <<>>, inj |-> FALSE]

Log(w, c, ok, injected) ==
    [w EXCEPT !.calls = Append(@, [call |-> c, ok |-> ok]), !.inj = @ \/ injected]

\* A call that raised, and a call that returned val.
Fail(w, c, injected) == [ok |-> FALSE, val |-> "", w |-> Log(w, c, FALSE, injected)]
Done(w, c, val) == [ok |-> TRUE, val |-> val, w |-> Log(w, c, TRUE, FALSE)]

\* A body that returned v, and a body an exception left.
Return(w, v) == [w |-> w, ret |-> v, exc |-> FALSE]
Throw(w) == [w |-> w, ret |-> PyRaised, exc |-> TRUE]

PyperclipCalls == {"pyperclip.copy", "pyperclip.paste"}
Win32Calls == {"OpenClipboard", "EmptyClipboard", "SetClipboardText", "SetClipboardData",
               "IsClipboardFormatAvailable", "GetClipboardData", "CloseClipboard"}
TkCalls == {"clipboard_clear", "clipboard_append", "update", "clipboard_get", "destroy"}
PilCalls == {"Image.open", "Image.fromarray", "convert", "save"}

----------------------------------------------------------------------------
\* Backend calls.  Each returns [ok, val, w]: ok is FALSE when the call raised.

\* pyperclip.copy(text): replaces the clipboard content by the text.
pyperclip_copy(w, t, F) ==
    IF "pyperclip.copy" \in F THEN Fail(w, "pyperclip.copy", TRUE)
    ELSE Done([w EXCEPT !.clip = TextContent(t)], "pyperclip.copy", "")

\* pyperclip.paste(): the clipboard text, "" when the clipboard holds no text.
pyperclip_paste(w, F) ==
    IF "pyperclip.paste" \in F THEN Fail(w, "pyperclip.paste", TRUE)
    ELSE Done(w, "pyperclip.paste", IF w.clip.kind = "text" THEN w.clip.text ELSE "")

\* win32clipboard.OpenClipboard(): takes the system-wide clipboard lock.
OpenClipboard(w, F) ==
    IF "OpenClipboard" \in F THEN Fail(w, "OpenClipboard", TRUE)
    ELSE Done([w EXCEPT !.lock = TRUE], "OpenClipboard", "")

\* win32clipboard.EmptyClipboard(): needs the lock; drops every format.
EmptyClipboard(w, F) ==
    IF "EmptyClipboard" \in F THEN Fail(w, "EmptyClipboard", TRUE)
    ELSE IF ~w.lock THEN Fail(w, "EmptyClipboard", FALSE)
    ELSE Done([w EXCEPT !.clip = NoContent], "EmptyClipboard", "")

\* win32clipboard.SetClipboardText(text): needs the lock; sets CF_UNICODETEXT.
SetClipboardText(w, t, F) ==
    IF "SetClipboardText" \in F THEN Fail(w, "SetClipboardText", TRUE)
    ELSE IF ~w.lock THEN Fail(w, "SetClipboardText", FALSE)
    ELSE Done([w EXCEPT !.clip = TextContent(t)], "SetClipboardText", "")

\* win32clipboard.SetClipboardData(CF_DIB, dib_data): needs the lock.
SetClipboardData(w, d, F) ==
    IF "SetClipboardData" \in F THEN Fail(w, "SetClipboardData", TRUE)
    ELSE IF ~w.lock THEN Fail(w, "SetClipboardData", FALSE)
    ELSE Done([w EXCEPT !.clip = DibContent(d)], "SetClipboardData", "")

\* win32clipboard.IsClipboardFormatAvailable(CF_UNICODETEXT).
IsClipboardFormatAvailable(w, F) ==
    IF "IsClipboardFormatAvailable" \in F THEN Fail(w, "IsClipboardFormatAvailable", TRUE)
    ELSE Done(w, "IsClipboardFormatAvailable", w.clip.kind = "text")

\* win32clipboard.GetClipboardData(CF_UNICODETEXT): needs the lock and a text.
GetClipboardData(w, F) ==
    IF "GetClipboardData" \in F THEN Fail(w, "GetClipboardData", TRUE)
    ELSE IF ~w.lock \/ w.clip.kind # "text" THEN Fail(w, "GetClipboardData", FALSE)
    ELSE Done(w, "GetClipboardData", w.clip.text)

\* win32clipboard.CloseClipboard(): releases the lock; raises without it.
CloseClipboard(w, F) ==
    IF "CloseClipboard" \in F THEN Fail(w, "CloseClipboard", TRUE)
    ELSE IF ~w.lock THEN Fail(w, "CloseClipboard", FALSE)
    ELSE Done([w EXCEPT !.lock = FALSE], "CloseClipboard", "")

\* Tk calls raise TclError once the root window is destroyed.
clipboard_clear(w, F) ==
    IF "clipboard_clear" \in F THEN Fail(w, "clipboard_clear", TRUE)
    ELSE IF w.tk # "live" THEN Fail(w, "clipboard_clear", FALSE)
    ELSE Done([w EXCEPT !.clip = NoContent], "clipboard_clear", "")

\* clipboard_append(text) adds the text to what the Tk clipboard holds.
clipboard_append(w, t, F) ==
    IF "clipboard_append" \in F THEN Fail(w, "clipboard_append", TRUE)
    ELSE IF w.tk # "live" THEN Fail(w, "clipboard_append", FALSE)
    ELSE Done([w EXCEPT !.clip = TextContent(IF @.kind = "text" THEN @.text \o t ELSE t)],
              "clipboard_append", "")

update(w, F) ==
    IF "update" \in F THEN Fail(w, "update", TRUE)
    ELSE IF w.tk # "live" THEN Fail(w, "update", FALSE)
    ELSE Done(w, "update", "")

\* clipboard_get() raises TclError when the clipboard holds no text.
clipboard_get(w, F) ==
    IF "clipboard_get" \in F THEN Fail(w, "clipboard_get", TRUE)
    ELSE IF w.tk # "live" \/ w.clip.kind # "text" THEN Fail(w, "clipboard_get", FALSE)
    ELSE Done(w, "clipboard_get", w.clip.text)

\* destroy() of the root window; raises TclError on a destroyed root.
destroy(w, F) ==
    IF "destroy" \in F THEN Fail(w, "destroy", TRUE)
    ELSE IF w.tk # "live" THEN Fail(w, "destroy", FALSE)
    ELSE Done([w EXCEPT !.tk = "destroyed"], "destroy", "")

----------------------------------------------------------------------------
\* save_text (lines 74-118).

save_text_pyperclip(w, text, F) ==
    LET r == pyperclip_copy(w, text, F) IN
    IF r.ok THEN Return(r.w, PyTrue) ELSE Throw(r.w)

save_text_win32(w, text, F) ==
    LET r1 == OpenClipboard(w, F) IN
    IF ~r1.ok THEN Throw(r1.w) ELSE
    LET r2 == EmptyClipboard(r1.w, F) IN
    IF ~r2.ok THEN Throw(r2.w) ELSE
    LET r3 == SetClipboardText(r2.w, text, F) IN
    IF ~r3.ok THEN Throw(r3.w) ELSE
    LET r4 == CloseClipboard(r3.w, F) IN
    IF ~r4.ok THEN Throw(r4.w) ELSE Return(r4.w, PyTrue)

\* Mutant: the Tk branch with its errors swallowed, reporting True anyway.
save_text_tkinter_swallow(w, text, F) ==
    LET r1 == clipboard_clear(w, F) IN
    IF ~r1.ok THEN Return(r1.w, PyTrue) ELSE
    LET r2 == clipboard_append(r1.w, text, F) IN
    IF ~r2.ok THEN Return(r2.w, PyTrue) ELSE
    LET r3 == update(r2.w, F) IN Return(r3.w, PyTrue)

save_text_tkinter(w, text, F) ==
    LET r1 == clipboard_clear(w, F) IN
    IF ~r1.ok THEN Throw(r1.w) ELSE
    LET r2 == clipboard_append(r1.w, text, F) IN
    IF ~r2.ok THEN Throw(r2.w) ELSE
    LET r3 == update(r2.w, F) IN
    IF ~r3.ok THEN Throw(r3.w) ELSE Return(r3.w, PyTrue)

\* Mutant: a backend that raised is followed by the next one in the chain.
save_text_try_fallback(w, text, F) ==
    LET p == IF has_pyperclip THEN save_text_pyperclip(w, text, F) ELSE Throw(w)
        n == IF has_win32 THEN save_text_win32(p.w, text, F) ELSE Throw(p.w)
        t == IF has_tkinter THEN save_text_tkinter(n.w, text, F) ELSE Return(n.w, PyFalse)
    IN  IF ~p.exc THEN p ELSE IF ~n.exc THEN n ELSE t

\* The try block of save_text: the first available backend, in priority order.
save_text_try(w, text, F) ==
    IF has_pyperclip THEN save_text_pyperclip(w, text, F)
    ELSE IF has_win32 THEN save_text_win32(w, text, F)
    ELSE IF has_tkinter THEN save_text_tkinter(w, text, F)
    ELSE Return(w, PyFalse)

\* except Exception: return False.
save_text_except(r) == IF r.exc THEN Return(r.w, PyFalse) ELSE r

\* Mutant: no isinstance check.
save_text_unchecked(w, text, F) == save_text_except(save_text_try(w, text.v, F))

\* isinstance(text, str) guards the whole body.
save_text(w, text, F) ==
    IF text.type # "str" THEN Return(w, PyFalse)
    ELSE save_text_except(save_text_try(w, text.v, F))

----------------------------------------------------------------------------
\* get_text (lines 259-297).

\* str(data) if data else None
StrOrNone(data) == IF data # "" THEN PyStr(data) ELSE PyNone

\* finally: CloseClipboard().  An exception of the finally clause replaces
\* whatever the try block was about to do.
get_text_finally(r, F) ==
    LET c == CloseClipboard(r.w, F) IN
    IF ~c.ok THEN Throw(c.w) ELSE [r EXCEPT !.w = c.w]

\* A body that ran off the end of a block without returning.
FallThrough(w) == [w |-> w, ret |-> PyNoReturn, exc |-> FALSE]
Fell(r) == ~r.exc /\ r.ret = PyNoReturn

\* The inner try block of the native branch.
get_text_win32_try(w, F) ==
    LET a == IsClipboardFormatAvailable(w, F) IN
    IF ~a.ok THEN Throw(a.w)
    ELSE IF a.val = TRUE THEN
        LET d == GetClipboardData(a.w, F) IN
        IF ~d.ok THEN Throw(d.w) ELSE Return(d.w, StrOrNone(d.val))
    ELSE FallThrough(a.w)

\* Mutant: OpenClipboard inside the try block, so that finally closes a
\* clipboard that was never opened.
get_text_win32_open_in_try(w, F) ==
    LET o == OpenClipboard(w, F) IN
    IF ~o.ok THEN get_text_finally(Throw(o.w), F)
    ELSE get_text_finally(get_text_win32_try(o.w, F), F)

get_text_win32(w, F) ==
    LET o == OpenClipboard(w, F) IN
    IF ~o.ok THEN Throw(o.w) ELSE get_text_finally(get_text_win32_try(o.w, F), F)

\* try: return self._tk_root.clipboard_get()  except: return None
get_text_tkinter(w, F) ==
    LET g == clipboard_get(w, F) IN
    IF g.ok THEN Return(g.w, PyStr(g.val)) ELSE Return(g.w, PyNone)

\* What follows the native branch: the Tk branch, then return None.
get_text_rest(w, F) ==
    IF has_tkinter THEN get_text_tkinter(w, F) ELSE Return(w, PyNone)

get_text_try(w, F) ==
    IF has_pyperclip THEN
        LET p == pyperclip_paste(w, F) IN
        IF p.ok THEN Return(p.w, PyStr(p.val)) ELSE Throw(p.w)
    ELSE IF has_win32 THEN
        LET n == get_text_win32(w, F) IN
        IF Fell(n) THEN get_text_rest(n.w, F) ELSE n
    ELSE get_text_rest(w, F)

\* Mutant: no except clause around the body of get_text.
get_text_noexcept(r) == r

\* except Exception: return None.
get_text_except(r) == IF r.exc THEN Return(r.w, PyNone) ELSE r

get_text(w, F) == get_text_except(get_text_try(w, F))

----------------------------------------------------------------------------
\* clear (lines 299-314).

\* Mutant: open and close without EmptyClipboard.
clear_win32_noempty(w, F) ==
    LET r1 == OpenClipboard(w, F) IN
    IF ~r1.ok THEN Throw(r1.w) ELSE
    LET r3 == CloseClipboard(r1.w, F) IN
    IF ~r3.ok THEN Throw(r3.w) ELSE Return(r3.w, PyTrue)

clear_win32(w, F) ==
    LET r1 == OpenClipboard(w, F) IN
    IF ~r1.ok THEN Throw(r1.w) ELSE
    LET r2 == EmptyClipboard(r1.w, F) IN
    IF ~r2.ok THEN Throw(r2.w) ELSE
    LET r3 == CloseClipboard(r2.w, F) IN
    IF ~r3.ok THEN Throw(r3.w) ELSE Return(r3.w, PyTrue)

clear_try(w, F) ==
    IF has_win32 THEN clear_win32(w, F) ELSE save_text(w, Str(""), F)

\* except Exception: return False.
clear_except(r) == IF r.exc THEN Return(r.w, PyFalse) ELSE r

clear(w, F) == clear_except(clear_try(w, F))

----------------------------------------------------------------------------
\* close (lines 328-334), which __exit__ and __del__ call.

\* Mutant: destroy() outside any try, so its TclError leaves close().
close_destroy_unguarded(w, F) ==
    LET d == destroy(w, F) IN IF d.ok THEN Return(d.w, PyNone) ELSE Throw(d.w)

\* try: self._tk_root.destroy()  except: pass
close_destroy(w, F) ==
    LET d == destroy(w, F) IN Return(d.w, PyNone)

\* hasattr(self, '_tk_root') and self._tk_root
close(w, F) ==
    IF w.tk \in {"live", "destroyed"} THEN close_destroy(w, F) ELSE Return(w, PyNone)

----------------------------------------------------------------------------
\* save_image (lines 120-157), _convert_to_pil (163-202),
\* _save_image_windows (204-253).

Image(m, wd, ht) == [mode |-> m, width |-> wd, height |-> ht]
NoImage == Image("", 0, 0)

\* Image.open / Image.fromarray: raise on data that is no image.
pil_decode(w, c, x) ==
    IF x.decodable THEN Done(w, c, Image(x.mode, x.width, x.height))
    ELSE Fail(w, c, FALSE)

\* The try block of _convert_to_pil; val is the image, NoImage for None.
convert_to_pil_try(w, x) ==
    IF x.type = "Image" THEN [ok |-> TRUE, val |-> Image(x.mode, x.width, x.height), w |-> w]
    ELSE IF x.type \in {"str", "bytes"} THEN pil_decode(w, "Image.open", x)
    ELSE IF x.type = "ndarray" THEN pil_decode(w, "Image.fromarray", x)
    ELSE [ok |-> TRUE, val |-> NoImage, w |-> w]

\* except Exception: return None.
_convert_to_pil(w, x) ==
    LET r == convert_to_pil_try(w, x) IN
    IF r.ok THEN r ELSE [ok |-> TRUE, val |-> NoImage, w |-> r.w]

\* The numpy branch of _convert_to_pil (lines 179-194) on the samples of an
\* array of shape (1, 1, 3).  An array of dtype uint8 holds bytes; the
\* samples of an array of any other dtype are kept in tenths (3007 is
\* 300.7, -52 is -5.2), so that truncation is something the model computes.
NdArray(dt, s) == [dtype |-> dt, samples |-> s]
NoArray == NdArray("", <<>>)

\* np.clip(image_data, 0, 255)
np_clip(a) ==
    [a EXCEPT !.samples = [i \in DOMAIN @ |->
        IF @[i] < 0 THEN 0 ELSE IF @[i] > UInt8Max * 10 THEN UInt8Max * 10 ELSE @[i]]]

\* .astype(np.uint8): the fraction is dropped (toward zero) and the integer
\* is kept modulo 2^8.
astype_uint8(a) ==
    NdArray("uint8", [i \in DOMAIN a.samples |->
        (IF a.samples[i] >= 0 THEN a.samples[i] \div 10
         ELSE 0 - ((0 - a.samples[i]) \div 10)) % (UInt8Max + 1)])

\* The result of the conversion: None, or an image with these bytes.
PilNone == [done |-> TRUE, isNone |-> TRUE, pixels |-> <<>>]
PilPixels(p) == [done |-> TRUE, isNone |-> FALSE, pixels |-> p]
NotConverted == [done |-> FALSE, isNone |-> FALSE, pixels |-> <<>>]

\* Image.fromarray on an array of three channels: PIL has a mode for it
\* only when the dtype is uint8, and raises TypeError otherwise.
fromarray(a) ==
    IF a.dtype = "uint8" THEN [ok |-> TRUE, val |-> PilPixels(a.samples)]
    ELSE [ok |-> FALSE, val |-> PilNone]

\* Lines 181-194: with numpy >= 2.0 the array goes to Image.fromarray as it
\* is; with numpy 1.x an array that is not uint8 is clipped and cast first.
convert_ndarray_try(v, a) ==
    IF v >= 2 THEN fromarray(a)
    ELSE IF a.dtype = "uint8" THEN fromarray(a)
    ELSE fromarray(astype_uint8(np_clip(a)))

\* except Exception: return None.
convert_ndarray(v, a) ==
    LET r == convert_ndarray_try(v, a) IN IF r.ok THEN r.val ELSE PilNone

\* image.convert('RGB')
pil_convert(w, img, F) ==
    IF "convert" \in F THEN Fail(w, "convert", TRUE)
    ELSE Done(w, "convert", [img EXCEPT !.mode = "RGB"])

\* One byte per element: F file header, I info header, P pixel rows (each
\* row of 3 * width bytes padded to a multiple of 4).
BmpBytes(img) ==
    LET stride == ((3 * img.width + 3) \div 4) * 4 IN
    [i \in 1..14 |-> "F"] \o [i \in 1..40 |-> "I"]
      \o [i \in 1..(img.height * stride) |-> "P"]

\* image.save(output, 'BMP', compress_level=0); output.getvalue()
pil_save(w, img, F) ==
    IF "save" \in F THEN Fail(w, "save", TRUE)
    ELSE Done(w, "save", BmpBytes(img))

\* Mutant: the whole BMP file is the payload.
KeepFileHeader(bmp_data) == bmp_data

\* bmp_data[14:]
StripFileHeader(bmp_data) == SubSeq(bmp_data, BmpFileHeaderLen + 1, Len(bmp_data))

\* Mutant: the bitmap is set without emptying the clipboard first.
save_image_write_noempty(w, dib_data, F) ==
    LET r1 == OpenClipboard(w, F) IN
    IF ~r1.ok THEN Throw(r1.w) ELSE
    LET r3 == SetClipboardData(r1.w, dib_data, F) IN
    IF ~r3.ok THEN Throw(r3.w) ELSE
    LET r4 == CloseClipboard(r3.w, F) IN
    IF ~r4.ok THEN Throw(r4.w) ELSE Return(r4.w, PyTrue)

\* The clipboard part of the try block.
save_image_write(w, dib_data, F) ==
    LET r1 == OpenClipboard(w, F) IN
    IF ~r1.ok THEN Throw(r1.w) ELSE
    LET r2 == EmptyClipboard(r1.w, F) IN
    IF ~r2.ok THEN Throw(r2.w) ELSE
    LET r3 == SetClipboardData(r2.w, dib_data, F) IN
    IF ~r3.ok THEN Throw(r3.w) ELSE
    LET r4 == CloseClipboard(r3.w, F) IN
    IF ~r4.ok THEN Throw(r4.w) ELSE Return(r4.w, PyTrue)

\* Mutant: the clipboard is opened and emptied before the image is
\* converted and encoded.
save_image_windows_try_open_first(w, image, F) ==
    LET r1 == OpenClipboard(w, F) IN
    IF ~r1.ok THEN Throw(r1.w) ELSE
    LET r2 == EmptyClipboard(r1.w, F) IN
    IF ~r2.ok THEN Throw(r2.w) ELSE
    LET c == IF image.mode # "RGB" THEN pil_convert(r2.w, image, F)
             ELSE [ok |-> TRUE, val |-> image, w |-> r2.w] IN
    IF ~c.ok THEN Throw(c.w) ELSE
    LET s == pil_save(c.w, c.val, F) IN
    IF ~s.ok THEN Throw(s.w) ELSE
    LET r3 == SetClipboardData(s.w, StripFileHeader(s.val), F) IN
    IF ~r3.ok THEN Throw(r3.w) ELSE
    LET r4 == CloseClipboard(r3.w, F) IN
    IF ~r4.ok THEN Throw(r4.w) ELSE Return(r4.w, PyTrue)

\* The try block: convert to RGB, encode as BMP, strip, write.
save_image_windows_try(w, image, F) ==
    LET c == IF image.mode # "RGB" THEN pil_convert(w, image, F)
             ELSE [ok |-> TRUE, val |-> image, w |-> w] IN
    IF ~c.ok THEN Throw(c.w) ELSE
    LET s == pil_save(c.w, c.val, F) IN
    IF ~s.ok THEN Throw(s.w) ELSE save_image_write(s.w, StripFileHeader(s.val), F)

\* except Exception: try: CloseClipboard() except: pass; return False
save_image_windows_except(r, F) ==
    IF r.exc THEN Return(CloseClipboard(r.w, F).w, PyFalse) ELSE r

\* Mutant: no check of _has_win32.
save_image_windows_unchecked(w, image, F) ==
    save_image_windows_except(save_image_windows_try(w, image, F), F)

_save_image_windows(w, image, F) ==
    IF ~has_win32 THEN Return(w, PyFalse)
    ELSE save_image_windows_except(save_image_windows_try(w, image, F), F)

save_image_try(w, image_data, F) ==
    LET pil_image == _convert_to_pil(w, image_data) IN
    IF pil_image.val = NoImage THEN Return(pil_image.w, PyFalse)
    ELSE _save_image_windows(pil_image.w, pil_image.val, F)

\* except Exception: return False.
save_image_except(r) == IF r.exc THEN Return(r.w, PyFalse) ELSE r

save_image(w, image_data, F) == save_image_except(save_image_try(w, image_data, F))

----------------------------------------------------------------------------
\* Construction (lines 35-68).

\* How an import (or tk.Tk()) can end.
ImportOutcomes == {"ok", "ImportError", "OtherError"}

\* The calls an operation can reach, by the availability flags: a fault on
\* any other call changes nothing.
SaveTextCalls ==
    IF has_pyperclip THEN {"pyperclip.copy"}
    ELSE IF has_win32 THEN {"OpenClipboard", "EmptyClipboard", "SetClipboardText", "CloseClipboard"}
    ELSE IF has_tkinter THEN {"clipboard_clear", "clipboard_append", "update"}
    ELSE {}

GetTextCalls ==
    IF has_pyperclip THEN {"pyperclip.paste"}
    ELSE (IF has_win32 THEN {"OpenClipboard", "IsClipboardFormatAvailable",
                             "GetClipboardData", "CloseClipboard"} ELSE {})
           \cup (IF has_tkinter THEN {"clipboard_get"} ELSE {})

ClearCalls ==
    IF has_win32 THEN {"OpenClipboard", "EmptyClipboard", "CloseClipboard"} ELSE SaveTextCalls

SaveImageCalls ==
    IF has_win32 THEN {"convert", "save", "OpenClipboard", "EmptyClipboard",
                       "SetClipboardData", "CloseClipboard"}
    ELSE {}

\* The fault sets of an operation that can reach the calls S.  A body stops
\* at the first call that raises, and the one call made after an exception
\* is the cleanup CloseClipboard: so at most one call besides
\* CloseClipboard is made to fail.
FaultSets(S) == {F \in SUBSET S : Cardinality(F \ {"CloseClipboard"}) <= 1}

CountCalls(calls, c, okOnly) ==
    Cardinality({i \in 1..Len(calls) : calls[i].call = c /\ (okOnly => calls[i].ok)})

NoOp == [op |-> "none", arg |-> NoArg, ret |-> PyNone, calls |-> <<>>, inj |-> FALSE]
NoPrev == [op |-> "none", text |-> "", ok |-> FALSE, inj |-> FALSE]

\* What prevOp keeps of the call before a get_text (the call whose effect
\* get_text reads back): the method, its text argument, whether it returned
\* True, and whether the environment made one of its calls fail.
Summary(o) == [op |-> o.op, text |-> o.arg.v, ok |-> o.ret = PyTrue, inj |-> o.inj]

\* Mutant: destroying the Tk root clears _has_tkinter.
CommitClearingFlag(op, arg, r) ==
    /\ clip' = r.w.clip
    /\ lock' = r.w.lock
    /\ tk_root' = r.w.tk
    /\ lastOp' = [op |-> op, arg |-> arg, ret |-> IF r.exc THEN PyRaised ELSE r.ret,
                  calls |-> r.w.calls, inj |-> r.w.inj]
    /\ prevOp' = IF op = "get_text" THEN Summary(lastOp) ELSE NoPrev
    /\ destroyCalls' = destroyCalls + CountCalls(r.w.calls, "destroy", FALSE)
    /\ destroyOk' = destroyOk + CountCalls(r.w.calls, "destroy", TRUE)
    /\ has_tkinter' = (has_tkinter /\ r.w.tk # "destroyed")
    /\ UNCHANGED <<has_win32, has_pyperclip, windows>>
    /\ UNCHANGED pure

\* The state after a public method ended with result r.
Commit(op, arg, r) ==
    /\ clip' = r.w.clip
    /\ lock' = r.w.lock
    /\ tk_root' = r.w.tk
    /\ lastOp' = [op |-> op, arg |-> arg, ret |-> IF r.exc THEN PyRaised ELSE r.ret,
                  calls |-> r.w.calls, inj |-> r.w.inj]
    /\ prevOp' = IF op = "get_text" THEN Summary(lastOp) ELSE NoPrev
    /\ destroyCalls' = destroyCalls + CountCalls(r.w.calls, "destroy", FALSE)
    /\ destroyOk' = destroyOk + CountCalls(r.w.calls, "destroy", TRUE)
    /\ UNCHANGED <<has_win32, has_pyperclip, has_tkinter, windows>>
    /\ UNCHANGED pure

\* The manager before its constructor ran.
ManagerInit ==
    /\ phase = "uninit"
    /\ has_win32 = FALSE
    /\ has_pyperclip = FALSE
    /\ has_tkinter = FALSE
    /\ tk_root = "unset"
    /\ clip \in {NoContent, TextContent("b")}
    /\ lock = FALSE
    /\ lastOp = NoOp
    /\ prevOp = NoPrev
    /\ closeCalls = 0
    /\ destroyCalls = 0
    /\ destroyOk = 0
    /\ windows = 0

NoPayload == [done |-> FALSE, bytes |-> <<>>]

\* No pure function under study.
PureIdle ==
    /\ np_version = 2
    /\ array = NoArray
    /\ converted = NotConverted
    /\ bitmap = NoImage
    /\ payload = NoPayload

\* The module as imported: _clipboard_instance = None (line 345).
ModuleInit ==
    /\ _clipboard_instance = "None"
    /\ constructions = 0
    /\ pending = "none"

Init == ManagerInit /\ PureIdle /\ ModuleInit

\* __init__: the imports of win32clipboard and pyperclip are guarded by
\* except ImportError, tk.Tk() and withdraw() by except Exception.
__init__(win32, pyperclip, tk) ==
    /\ has_win32' = (win32 = "ok")
    /\ has_pyperclip' = (win32 # "OtherError" /\ pyperclip = "ok")
    /\ LET raised == win32 = "OtherError" \/ pyperclip = "OtherError" IN
        /\ has_tkinter' = (~raised /\ tk = "ok")
        /\ tk_root' = IF raised THEN "unset" ELSE IF tk = "ok" THEN "live" ELSE "None"
        /\ windows' = IF ~raised /\ tk = "ok" THEN windows + 1 ELSE windows
        /\ phase' = IF raised THEN "failed" ELSE "ready"
        /\ lastOp' = [NoOp EXCEPT !.op = "__init__",
                                  !.ret = IF raised THEN PyRaised ELSE PyNone]
    /\ prevOp' = NoPrev
    /\ UNCHANGED <<clip, lock, closeCalls, destroyCalls, destroyOk>>
    /\ UNCHANGED pure

\* ClipboardManager() by the owner of the object.
Construct(win32, pyperclip, tk) ==
    /\ phase = "uninit"
    /\ __init__(win32, pyperclip, tk)
    /\ UNCHANGED module

SaveText(text, F) ==
    /\ phase = "ready"
    /\ Commit("save_text", text, save_text(World, text, F))
    /\ UNCHANGED <<phase, closeCalls>>
    /\ UNCHANGED module

SaveImage(image_data, F) ==
    /\ phase = "ready"
    /\ Commit("save_image", image_data, save_image(World, image_data, F))
    /\ UNCHANGED <<phase, closeCalls>>
    /\ UNCHANGED module

GetText(F) ==
    /\ phase = "ready"
    /\ Commit("get_text", NoArg, get_text(World, F))
    /\ UNCHANGED <<phase, closeCalls>>
    /\ UNCHANGED module

Clear(F) ==
    /\ phase = "ready"
    /\ Commit("clear", NoArg, clear(World, F))
    /\ UNCHANGED <<phase, closeCalls>>
    /\ UNCHANGED module

\* close() called by the owner.
Close(F) ==
    /\ phase = "ready"
    /\ closeCalls < MaxClose
    /\ Commit("close", NoArg, close(World, F))
    /\ closeCalls' = closeCalls + 1
    /\ UNCHANGED phase
    /\ UNCHANGED module

\* __exit__ (lines 324-326): self.close().
Exit(F) ==
    /\ phase = "ready"
    /\ closeCalls < MaxClose
    /\ Commit("__exit__", NoArg, close(World, F))
    /\ closeCalls' = closeCalls + 1
    /\ UNCHANGED phase
    /\ UNCHANGED module

\* __del__ (lines 336-338): self.close(), also on an object whose __init__
\* raised; nothing is called on the object afterwards.
Del(F) ==
    /\ phase \in {"ready", "failed"}
    /\ closeCalls < MaxClose
    /\ Commit("__del__", NoArg, close(World, F))
    /\ closeCalls' = closeCalls + 1
    /\ phase' = "deleted"
    /\ UNCHANGED module

Next ==
    \/ \E a, b, c \in ImportOutcomes : Construct(a, b, c)
    \/ \E t \in TextInputs, F \in FaultSets(SaveTextCalls) : SaveText(t, F)
    \/ \E i \in ImageInputs, F \in FaultSets(SaveImageCalls) : SaveImage(i, F)
    \/ \E F \in FaultSets(GetTextCalls) : GetText(F)
    \/ \E F \in FaultSets(ClearCalls) : Clear(F)
    \/ \E F \in FaultSets({"destroy"}) : Close(F)
    \/ \E F \in FaultSets({"destroy"}) : Exit(F)
    \/ \E F \in FaultSets({"destroy"}) : Del(F)

Spec == Init /\ [][Next]_vars

----------------------------------------------------------------------------
\* The pure functions of the image path, applied to inputs drawn at the
\* start: the numpy branch of _convert_to_pil, and the encoding of an image
\* into the payload of SetClipboardData.

manager == <<phase, has_win32, has_pyperclip, has_tkinter, tk_root, clip, lock,
             lastOp, prevOp, closeCalls, destroyCalls, destroyOk, windows>>

Triples(S) == {<<a, b, c>> : a \in S, b \in S, c \in S}

Arrays ==
    {NdArray("float64", t) : t \in Triples(FloatSamples)}
      \cup {NdArray("int32", t) : t \in Triples(IntSamples)}
      \cup {NdArray("uint8", t) : t \in Triples(ByteSamples)}

Bitmaps ==
    {Image(m, wd, ht) : m \in {"RGB", "RGBA"}, wd \in 1..MaxBmpDim, ht \in 1..MaxBmpDim}
      \cup {Image("RGB", 100, 100)}

PureInit ==
    /\ ManagerInit
    /\ ModuleInit
    /\ np_version \in NumpyMajors
    /\ converted = NotConverted
    /\ payload = NoPayload
    /\ \/ array \in Arrays /\ bitmap = NoImage
       \/ array = NoArray /\ bitmap \in Bitmaps

\* _convert_to_pil(array)
ConvertArray ==
    /\ array # NoArray
    /\ ~converted.done
    /\ converted' = convert_ndarray(np_version, array)
    /\ UNCHANGED <<manager, module, np_version, array, bitmap, payload>>

\* The try block of _save_image_windows on the image, no call failing: the
\* payload is what SetClipboardData left on the clipboard.
EncodeBitmap ==
    /\ bitmap # NoImage
    /\ ~payload.done
    /\ payload' = [done |-> TRUE,
                   bytes |-> save_image_windows_try(World, bitmap, {}).w.clip.dib]
    /\ UNCHANGED <<manager, module, np_version, array, converted, bitmap>>

PureNext == ConvertArray \/ EncodeBitmap

PureSpec == PureInit /\ [][PureNext]_vars

----------------------------------------------------------------------------
\* The module-level API (lines 345-385).  Each function first evaluates
\* get_clipboard() and then calls one method on what it returned; pending
\* names the function between these two steps.

ModuleFunctions == {"get_clipboard", "copy_text", "copy_image", "paste_text", "clear_clipboard"}

\* get_clipboard() evaluated by the function fn: the constructor runs when
\* _clipboard_instance is None, and the global is assigned only when the
\* constructor returned; an exception of the constructor leaves fn.
get_clipboard(fn, win32, pyperclip, tk) ==
    /\ pending = "none"
    /\ IF _clipboard_instance = "None"
       THEN /\ constructions < MaxConstruct
            /\ __init__(win32, pyperclip, tk)
            /\ constructions' = constructions + 1
            /\ _clipboard_instance' = IF phase' = "ready" THEN "set" ELSE "None"
            /\ pending' = IF phase' = "ready" /\ fn # "get_clipboard" THEN fn ELSE "none"
       ELSE /\ pending' = IF fn # "get_clipboard" THEN fn ELSE "none"
            /\ UNCHANGED <<manager, pure, _clipboard_instance, constructions>>

\* The method call of a module-level function on the instance.
MethodOf(fn, op, arg, r) ==
    /\ pending = fn
    /\ _clipboard_instance = "set"
    /\ Commit(op, arg, r)
    /\ pending' = "none"
    /\ UNCHANGED <<phase, closeCalls, _clipboard_instance, constructions>>

copy_text(text, F) == MethodOf("copy_text", "save_text", text, save_text(World, text, F))

copy_image(image_data, F) ==
    MethodOf("copy_image", "save_image", image_data, save_image(World, image_data, F))

paste_text(F) == MethodOf("paste_text", "get_text", NoArg, get_text(World, F))

clear_clipboard(F) == MethodOf("clear_clipboard", "clear", NoArg, clear(World, F))

ModuleNext ==
    \/ \E fn \in ModuleFunctions, a, b, c \in ImportOutcomes : get_clipboard(fn, a, b, c)
    \/ \E t \in TextInputs, F \in FaultSets(SaveTextCalls) : copy_text(t, F)
    \/ \E i \in ImageInputs, F \in FaultSets(SaveImageCalls) : copy_image(i, F)
    \/ \E F \in FaultSets(GetTextCalls) : paste_text(F)
    \/ \E F \in FaultSets(ClearCalls) : clear_clipboard(F)

ModuleSpec == Init /\ [][ModuleNext]_vars

----------------------------------------------------------------------------
\* Vocabulary of the properties.

DataOps == {"save_text", "save_image", "get_text", "clear"}
CloseOps == {"close", "__exit__", "__del__"}

CallNames(calls) == [i \in 1..Len(calls) |-> calls[i].call]
Called(c) == \E i \in 1..Len(lastOp.calls) : lastOp.calls[i].call = c
CallFailed(c) ==
    \E i \in 1..Len(lastOp.calls) : lastOp.calls[i].call = c /\ ~lastOp.calls[i].ok
AnyCallFailed == \E i \in 1..Len(lastOp.calls) : ~lastOp.calls[i].ok

\* The backend a call belongs to.
BackendOf(c) ==
    IF c \in PyperclipCalls THEN "fastTextLib"
    ELSE IF c \in Win32Calls THEN "nativeApi"
    ELSE IF c \in TkCalls THEN "guiToolkit"
    ELSE "imaging"

\* The highest-priority available text backend, fastTextLib > nativeApi >
\* guiToolkit, as the availability record gives it.
HighestPriorityBackend ==
    CASE has_pyperclip -> "fastTextLib"
      [] ~has_pyperclip /\ has_win32 -> "nativeApi"
      [] ~has_pyperclip /\ ~has_win32 /\ has_tkinter -> "guiToolkit"
      [] OTHER -> "none"

----------------------------------------------------------------------------
\* C1: whenever a public operation has returned, every OpenClipboard it made
\* that succeeded was followed, within the same operation, by a
\* CloseClipboard call: no operation returns without having executed the
\* close step for the lock it took.
C1_CloseOnEveryExitPath ==
    \A i \in 1..Len(lastOp.calls) :
        (lastOp.calls[i].call = "OpenClipboard" /\ lastOp.calls[i].ok)
            => \E j \in (i + 1)..Len(lastOp.calls) : lastOp.calls[j].call = "CloseClipboard"

\* C2: a get_text that comes right after a save_text(t) that returned True,
\* with no backend call of the get_text made to fail, returns exactly t, for
\* every text t (the empty one too) and every availability record.
C2_TextRoundTrip ==
    (lastOp.op = "get_text" /\ ~lastOp.inj /\ prevOp.op = "save_text" /\ prevOp.ok)
        => lastOp.ret = PyStr(prevOp.text)

\* The round trip as the code has it: it holds for every non-empty t, and
\* for the empty t unless the native backend serves the manager.
C2_RoundTripExceptNativeEmpty ==
    (lastOp.op = "get_text" /\ ~lastOp.inj /\ prevOp.op = "save_text" /\ prevOp.ok
       /\ ~(prevOp.text = "" /\ HighestPriorityBackend = "nativeApi"))
        => lastOp.ret = PyStr(prevOp.text)

\* The empty text through the native backend reads back as None.
C2_NativeEmptyReadsNone ==
    (lastOp.op = "get_text" /\ ~lastOp.inj /\ prevOp.op = "save_text" /\ prevOp.ok
       /\ prevOp.text = "" /\ HighestPriorityBackend = "nativeApi")
        => lastOp.ret = PyNone

\* C3 as stated: over any sequence of close(), __exit__ and __del__ the
\* window's destroy operation is invoked at most once.
C3_DestroyInvokedAtMostOnce == destroyCalls <= 1

\* C3 as amended: no close(), __exit__ or __del__ reports an error, and at
\* most one window destroy ever takes effect; but every one of them on a
\* manager that holds a Tk root invokes destroy again, and an invocation on
\* the destroyed root raises inside close() and is swallowed there.
C3_CloseIdempotentByEffect ==
    /\ destroyOk <= 1
    /\ destroyCalls <= closeCalls
    /\ lastOp.op \in CloseOps =>
        /\ lastOp.ret = PyNone
        /\ tk_root \in {"live", "destroyed"} => CallNames(lastOp.calls) = <<"destroy">>
        /\ tk_root \notin {"live", "destroyed"} => lastOp.calls = <<>>
        /\ (CallFailed("destroy") /\ ~lastOp.inj) => (tk_root = "destroyed" /\ destroyOk = 1)

\* C3 witness: the second close() of a manager with a Tk root invoked destroy
\* again on the destroyed root, and returned normally.
C3_Witness ==
    /\ lastOp.op = "close"
    /\ closeCalls = 2
    /\ destroyCalls = 2
    /\ destroyOk = 1
    /\ CallFailed("destroy")
    /\ ~lastOp.inj
    /\ lastOp.ret = PyNone

\* What a data operation returns when it reports success.
ReportsSuccess(r) == r = PyTrue \/ r.kind = "str"

\* C4 as stated: once close() has been called, no later save_text,
\* save_image, get_text or clear reports success or changes the clipboard.
C4_ClosedRejectsEverything ==
    [][(closeCalls > 0 /\ lastOp'.op \in DataOps)
          => (~ReportsSuccess(lastOp'.ret) /\ clip' = clip)]_vars

\* C4 as amended: what close() ends is the Tk root only, and that is one-way:
\* a destroyed root stays destroyed, and from then on no save_text, clear or
\* get_text of a manager whose text backend is the GUI toolkit reports
\* success or changes the clipboard.  (Operations served by pyperclip or the
\* native API are accepted after close() as before.)
C4_DestroyedRootIsFinal ==
    [][tk_root = "destroyed" =>
          /\ tk_root' = "destroyed"
          /\ (lastOp'.op \in {"save_text", "get_text", "clear"}
                /\ HighestPriorityBackend = "guiToolkit")
               => (~ReportsSuccess(lastOp'.ret) /\ clip' = clip)]_vars

\* C4 witness: after close() destroyed the root, a save_text of a text on a
\* Tk-only manager called the toolkit and returned False.
C4_Witness ==
    /\ tk_root = "destroyed"
    /\ closeCalls > 0
    /\ HighestPriorityBackend = "guiToolkit"
    /\ lastOp.op = "save_text"
    /\ lastOp.arg.type = "str"
    /\ Called("clipboard_clear")
    /\ lastOp.ret = PyFalse

\* C5: a save_text of a text calls the highest-priority available backend and
\* no other, whatever fails: at least one call when a backend is available,
\* every call one of that backend, and False when a call failed.
C5_OneBackendNoFallback ==
    (lastOp.op = "save_text" /\ lastOp.arg.type = "str") =>
        /\ \A i \in 1..Len(lastOp.calls) :
              BackendOf(lastOp.calls[i].call) = HighestPriorityBackend
        /\ HighestPriorityBackend # "none" => lastOp.calls # <<>>
        /\ AnyCallFailed => lastOp.ret = PyFalse
        /\ ~AnyCallFailed /\ HighestPriorityBackend # "none" => lastOp.ret = PyTrue

\* C5 witness: with all three backends available pyperclip.copy failed, and
\* save_text returned False having called nothing else.
C5_Witness ==
    /\ has_pyperclip /\ has_win32 /\ has_tkinter
    /\ lastOp.op = "save_text"
    /\ lastOp.arg.type = "str"
    /\ lastOp.calls = <<[call |-> "pyperclip.copy", ok |-> FALSE]>>
    /\ lastOp.ret = PyFalse

\* C6: a save_text of a value that is no text returns False, calls no backend
\* and leaves the clipboard, the lock and the Tk root as they were.
C6_NonTextRejected ==
    [][(lastOp'.op = "save_text" /\ lastOp'.arg.type # "str") =>
          /\ lastOp'.ret = PyFalse
          /\ lastOp'.calls = <<>>
          /\ clip' = clip /\ lock' = lock /\ tk_root' = tk_root]_vars

\* C6 witness: save_text(7) on a manager with every backend returned False.
C6_Witness ==
    /\ has_pyperclip /\ has_win32 /\ has_tkinter
    /\ lastOp.op = "save_text"
    /\ lastOp.arg.type = "int"
    /\ lastOp.ret = PyFalse
    /\ lastOp.calls = <<>>

\* An input _convert_to_pil can turn into an image: one of the four
\* supported types, holding image data.
Normalizable(x) ==
    x.type = "Image" \/ (x.type \in {"str", "bytes", "ndarray"} /\ x.decodable)

NativeCallsOf(calls) == {i \in 1..Len(calls) : calls[i].call \in Win32Calls}

\* C7: a save_image whose input cannot be normalized, or whose manager did
\* not acquire the native backend, returns False, makes no native clipboard
\* call and leaves the clipboard and the lock as they were.
C7_SaveImageRejectsWithoutNativeCall ==
    [][(lastOp'.op = "save_image" /\ (~Normalizable(lastOp'.arg) \/ ~has_win32)) =>
          /\ lastOp'.ret = PyFalse
          /\ NativeCallsOf(lastOp'.calls) = {}
          /\ clip' = clip /\ lock' = lock]_vars

\* C7 witness: on a manager with the native backend, save_image of bytes that
\* are no image tried to decode them and returned False.
C7_Witness ==
    /\ has_win32
    /\ lastOp.op = "save_image"
    /\ lastOp.arg.type = "bytes"
    /\ ~lastOp.arg.decodable
    /\ CallFailed("Image.open")
    /\ lastOp.ret = PyFalse

\* The calls of the last operation that are native clipboard calls, in order.
NativeCallSeq == SelectSeq(lastOp.calls, LAMBDA c : c.call \in Win32Calls)

\* C8: a save_image that returned True made exactly the native calls
\* OpenClipboard, EmptyClipboard, SetClipboardData, CloseClipboard, in this
\* order and each successfully, and left the clipboard holding the bitmap
\* payload and no text; a get_text through the native backend right after it
\* returns no text.
C8_SaveImageFullReplace ==
    /\ (lastOp.op = "save_image" /\ lastOp.ret = PyTrue) =>
          /\ NativeCallSeq = << [call |-> "OpenClipboard", ok |-> TRUE],
                                [call |-> "EmptyClipboard", ok |-> TRUE],
                                [call |-> "SetClipboardData", ok |-> TRUE],
                                [call |-> "CloseClipboard", ok |-> TRUE] >>
          /\ clip.kind = "image"
          /\ clip.text = ""
          /\ clip.dib = StripFileHeader(BmpBytes(Image("RGB", lastOp.arg.width, lastOp.arg.height)))
    /\ (lastOp.op = "get_text" /\ prevOp.op = "save_image" /\ prevOp.ok
          /\ HighestPriorityBackend = "nativeApi") => lastOp.ret = PyNone

\* C8 witness: a get_text through the native backend, with the GUI toolkit
\* also available, right after a successful save_image; it found no text
\* format and returned None.
C8_Witness ==
    /\ HighestPriorityBackend = "nativeApi"
    /\ has_tkinter
    /\ lastOp.op = "get_text"
    /\ prevOp.op = "save_image"
    /\ prevOp.ok
    /\ ~lastOp.inj
    /\ clip.kind = "image"
    /\ lastOp.ret = PyNone

C10_NoExceptionCrossesFacade ==
    /\ lastOp.op \in {"save_text", "save_image", "clear"} => lastOp.ret.kind = "bool"
    /\ lastOp.op = "get_text" => lastOp.ret.kind \in {"str", "None"}
    /\ lastOp.op \in CloseOps => lastOp.ret = PyNone

\* C10 witness: in a save_image both SetClipboardData and the cleanup
\* CloseClipboard failed, and save_image returned False.
C10_Witness ==
    /\ lastOp.op = "save_image"
    /\ CallFailed("SetClipboardData")
    /\ CallFailed("CloseClipboard")
    /\ lock
    /\ lastOp.ret = PyFalse

----------------------------------------------------------------------------
\* The byte the specification gives for a sample (in tenths): clamped to
\* [0, 255], then the integer part.
ClampTruncate(x) == IF x < 0 THEN 0 ELSE IF x > 2550 THEN 255 ELSE x \div 10

NonUint8 == array # NoArray /\ array.dtype # "uint8"

\* C11: the conversion of a 3-channel array whose dtype is not uint8 yields
\* an image whose every byte is the sample clamped to [0, 255] and then
\* truncated toward zero (300.7 -> 255, -5.2 -> 0, 127.9 -> 127), whatever
\* the numpy version of the runtime.
C11_ClampThenTruncate ==
    (converted.done /\ NonUint8) =>
        /\ ~converted.isNone
        /\ converted.pixels = [i \in 1..3 |-> ClampTruncate(array.samples[i])]

\* What the code does: the clamp-then-truncate conversion on the numpy 1.x
\* path, and no image at all (None) on the numpy >= 2.0 path.
C11_ClampOnNumpy1Only ==
    (converted.done /\ NonUint8) =>
        IF np_version < 2
        THEN /\ ~converted.isNone
             /\ converted.pixels = [i \in 1..3 |-> ClampTruncate(array.samples[i])]
        ELSE converted.isNone

----------------------------------------------------------------------------
\* The size of the uncompressed 24-bit BMP file of a width x height image:
\* a file header of 14 bytes, an info header of 40 bytes, and height rows
\* of 24 * width bits, each padded to a multiple of 32 bits.
BmpFileSize(wd, ht) == 14 + 40 + ht * (4 * ((24 * wd + 31) \div 32))

\* C12: the payload written for a width x height image is the uncompressed
\* 24-bit BMP of the image without its leading 14 bytes: its length is the
\* BMP file size minus 14, byte i of it is byte i + 14 of the file, and it
\* starts with the 40 bytes of the info header.
C12_PayloadIsBmpWithoutFileHeader ==
    payload.done =>
        LET bmp == BmpBytes(bitmap)
            dib == payload.bytes IN
        /\ Len(bmp) = BmpFileSize(bitmap.width, bitmap.height)
        /\ Len(dib) = BmpFileSize(bitmap.width, bitmap.height) - 14
        /\ \A i \in 1..Len(dib) : dib[i] = bmp[i + 14]
        /\ \A i \in 1..40 : dib[i] = "I"
        /\ \A i \in 41..Len(dib) : dib[i] = "P"

\* Reached: the payload of a 3 x 2 image, rows of 9 bytes padded to 12.
C12_Witness ==
    /\ payload.done
    /\ bitmap.width = 3
    /\ bitmap.height = 2
    /\ Len(payload.bytes) = 64

----------------------------------------------------------------------------
\* C13: every backend call a get_text makes belongs to the highest-priority
\* available backend, the one save_text would choose: in particular a
\* get_text through the native backend on a clipboard without text makes no
\* call to the GUI toolkit.
C13_GetTextQueriesOneBackend ==
    lastOp.op = "get_text" =>
        \A i \in 1..Len(lastOp.calls) :
            BackendOf(lastOp.calls[i].call) = HighestPriorityBackend

\* What the code does: a call outside the chosen backend is made exactly
\* when the native backend is the chosen one, it found no text format and
\* closed the clipboard, and the manager has a Tk root; the call is
\* clipboard_get and its answer is what get_text returns.
C13_NativeFallsThroughToTk ==
    lastOp.op = "get_text" =>
        LET calls == CallNames(lastOp.calls)
            foreign == {i \in 1..Len(calls) : BackendOf(calls[i]) # HighestPriorityBackend} IN
        /\ foreign # {} =>
              /\ HighestPriorityBackend = "nativeApi" /\ has_tkinter
              /\ calls = <<"OpenClipboard", "IsClipboardFormatAvailable",
                           "CloseClipboard", "clipboard_get">>
              /\ \A i \in 1..3 : lastOp.calls[i].ok
        /\ (HighestPriorityBackend = "nativeApi" /\ has_tkinter /\ ~lastOp.inj
              /\ ~Called("GetClipboardData")) => foreign # {}

----------------------------------------------------------------------------
\* C14: whatever way the acquisition of a backend fails, the constructor
\* does not raise: once __init__ has run the manager is constructed, with
\* its three availability flags determined and its Tk root set.
C14_ConstructionNeverRaises ==
    lastOp.op = "__init__" =>
        /\ lastOp.ret # PyRaised
        /\ phase = "ready"
        /\ tk_root # "unset"

----------------------------------------------------------------------------
\* C15: once the constructor has run, no step changes the three
\* availability flags or the number of Tk windows created, and no manager
\* ever has more than one window created for it.
C15_FlagsAndWindowFrozen ==
    [][/\ phase # "uninit" =>
            /\ has_win32' = has_win32
            /\ has_pyperclip' = has_pyperclip
            /\ has_tkinter' = has_tkinter
            /\ windows' = windows
       /\ windows' <= 1]_vars

\* Reached: a save_text that failed on the Tk root close() had destroyed;
\* the flag still says the GUI toolkit is available and no second window
\* was made.
C15_Witness ==
    /\ lastOp.op = "save_text"
    /\ lastOp.ret = PyFalse
    /\ tk_root = "destroyed"
    /\ has_tkinter
    /\ windows = 1

----------------------------------------------------------------------------
\* Call j of the last operation is a CloseClipboard that no successful
\* OpenClipboard of the same operation precedes without a CloseClipboard
\* that released the lock in between.
CloseWithoutOpen(j) ==
    /\ lastOp.calls[j].call = "CloseClipboard"
    /\ ~\E i \in 1..(j - 1) :
            /\ lastOp.calls[i].call = "OpenClipboard"
            /\ lastOp.calls[i].ok
            /\ \A k \in (i + 1)..(j - 1) :
                   ~(lastOp.calls[k].call = "CloseClipboard" /\ lastOp.calls[k].ok)

\* C16: every CloseClipboard call is made while the operation holds the
\* lock it opened: it comes after a successful OpenClipboard of the same
\* operation with no CloseClipboard in between; so a save_image that fails
\* in conversion, in encoding or at OpenClipboard makes no CloseClipboard
\* call.
C16_CloseOnlyWhileHoldingLock ==
    \A j \in 1..Len(lastOp.calls) : ~CloseWithoutOpen(j)

\* What the code does: the only CloseClipboard without an open of its own
\* is the cleanup call of save_image, made as the last call after convert,
\* save or OpenClipboard raised.
C16_CloseWithoutOpenOnlyInCleanup ==
    \A j \in 1..Len(lastOp.calls) :
        CloseWithoutOpen(j) =>
            /\ lastOp.op = "save_image"
            /\ lastOp.ret = PyFalse
            /\ j = Len(lastOp.calls)
            /\ j > 1
            /\ lastOp.calls[j - 1].call \in {"convert", "save", "OpenClipboard"}
            /\ ~lastOp.calls[j - 1].ok

\* Reached: a save_image whose OpenClipboard raised and whose cleanup then
\* called CloseClipboard on the clipboard it had not opened.
C16_Witness ==
    /\ lastOp.op = "save_image"
    /\ lastOp.ret = PyFalse
    /\ CallNames(lastOp.calls) = <<"save", "OpenClipboard", "CloseClipboard">>
    /\ ~lastOp.calls[2].ok
    /\ ~lastOp.calls[3].ok
    /\ ~lock

----------------------------------------------------------------------------
\* C17: in every save_image all calls that decode, convert and encode the
\* image come before the first native clipboard call, and a save_image in
\* which the normalization, the conversion to RGB or the encoding failed
\* leaves the clipboard content exactly as it was before the call.
C17_ImagingFailureKeepsClipboard ==
    [][lastOp'.op = "save_image" =>
          LET calls == lastOp'.calls IN
          /\ \A i, j \in 1..Len(calls) :
                (calls[i].call \in PilCalls /\ calls[j].call \in Win32Calls) => i < j
          /\ (~Normalizable(lastOp'.arg)
                \/ \E i \in 1..Len(calls) : calls[i].call \in PilCalls /\ ~calls[i].ok)
               => (clip' = clip /\ lastOp'.ret = PyFalse)]_vars

\* Reached: a save_image whose conversion to RGB raised while the clipboard
\* held the bitmap of an earlier save_image; the bitmap is still there.
C17_Witness ==
    /\ lastOp.op = "save_image"
    /\ lastOp.arg.mode = "RGBA"
    /\ CallFailed("convert")
    /\ ~Called("OpenClipboard")
    /\ lastOp.ret = PyFalse
    /\ clip.kind = "image"

----------------------------------------------------------------------------
\* C18: over every sequence of calls of the module-level functions the
\* ClipboardManager constructor runs at most once, so that at most one Tk
\* window is created.
C18_ConstructorRunsAtMostOnce ==
    /\ constructions <= 1
    /\ windows <= 1

\* What the code does: once a constructor run has returned, the instance
\* stays and the constructor does not run again; a run that raised leaves
\* _clipboard_instance None, so the next call runs the constructor again.
\* Runs that raise create no window, so at most one window is created.
C18_OneInstanceOnceConstructed ==
    [][/\ _clipboard_instance = "set" =>
            /\ _clipboard_instance' = "set"
            /\ constructions' = constructions
            /\ windows' = windows
       /\ _clipboard_instance' = "None" => phase' \in {"uninit", "failed"}
       /\ windows' <= 1]_vars
====
